---- MODULE Spec2Model ----
(***************************************************************************)
(* A model of squish/core.pyx: the flat 2-D arrays (IArray, FArray), the   *)
(* BitSet, and the Vector2D / Matrix2x2 algebra with its self (mutating)   *)
(* and copy (allocating) operation tables.                                 *)
(*                                                                         *)
(* Every function of the source that takes a pointer to its receiver is an *)
(* operator returning a record [self |-> receiver after the call,          *)
(* ret |-> returned value]; arguments are passed by value, as in the       *)
(* source.  A returned value is tagged with its kind: [kind, val].         *)
(***************************************************************************)
EXTENDS Integers, Sequences, FiniteSets, TLC

VARIABLES
    sizeof_INT_T,     \* sizeof(INT_T) of the build, in bytes
    VSO, VCO, MSO, MCO,   \* the four module-level operation tables
    bitset,           \* the BitSet object: [bits |-> sequence of words]
    elements,         \* the capacity the caller gave to _BitSet
    added,            \* the values the caller has added since construction
    bitcall,          \* the last BitSet call: its argument, accesses, result
    boundsChecking,   \* whether the ..._valid_indices calls are compiled in
    iarray, farray,   \* the array objects: [arr |-> buffer, shape |-> <<r, c>>]
    live,             \* which of the two arrays the caller holds
    arrcall,          \* the last array call
    receiver,         \* which of the two algebra values the caller works on
    vec, veccall,     \* the Vector2D receiver and the last call on it
    mat, matcall      \* the Matrix2x2 receiver and the last call on it

vars == <<sizeof_INT_T, VSO, VCO, MSO, MCO, bitset, elements, added, bitcall,
          boundsChecking, iarray, farray, live, arrcall,
          receiver, vec, veccall, mat, matcall>>

bitVars == <<sizeof_INT_T, bitset, elements, added, bitcall>>
arrVars == <<boundsChecking, iarray, farray, live, arrcall>>
algVars == <<receiver, vec, veccall, mat, matcall>>
tables  == <<VSO, VCO, MSO, MCO>>

(***************************************************************************)
(* Bounds of the model.                                                    *)
(***************************************************************************)
MaxElements == 8     \* largest capacity given to _BitSet
MaxCells == 6        \* largest number of elements (rows*cols) of an array
MaxMag == 1          \* largest magnitude of a finite FLOAT_T component

(***************************************************************************)
(* FLOAT_T.  A value is [k, s, m]: kind "fin" (finite, magnitude m, sign   *)
(* s, so that both zeros exist), "inf" (sign s) or "nan" (one NaN: no      *)
(* operation of the source observes a NaN's sign or payload).  The finite  *)
(* values of the model are small integers, on which IEEE-754 addition,     *)
(* subtraction and multiplication are exact; a division is taken only      *)
(* where its result is exact as well (Exact).                              *)
(***************************************************************************)
Abs(n) == IF n < 0 THEN -n ELSE n

Fin(n) == [k |-> "fin", s |-> IF n < 0 THEN -1 ELSE 1, m |-> Abs(n)]
NegZero == [k |-> "fin", s |-> -1, m |-> 0]
Inf(s) == [k |-> "inf", s |-> s, m |-> 0]
NaN == [k |-> "nan", s |-> 1, m |-> 0]

IsNaN(x) == x.k = "nan"
IsZero(x) == x.k = "fin" /\ x.m = 0

FNeg(x) == IF IsNaN(x) THEN NaN ELSE [x EXCEPT !.s = -x.s]

FAdd(x, y) ==
    IF IsNaN(x) \/ IsNaN(y) THEN NaN
    ELSE IF x.k = "inf" /\ y.k = "inf" THEN (IF x.s = y.s THEN x ELSE NaN)
    ELSE IF x.k = "inf" THEN x
    ELSE IF y.k = "inf" THEN y
    ELSE LET v == x.s * x.m + y.s * y.m IN
         IF v = 0
         THEN (IF x.s = -1 /\ y.s = -1 THEN NegZero ELSE Fin(0))
         ELSE Fin(v)

FSub(x, y) == FAdd(x, FNeg(y))

FMul(x, y) ==
    IF IsNaN(x) \/ IsNaN(y) THEN NaN
    ELSE IF (x.k = "inf" /\ IsZero(y)) \/ (IsZero(x) /\ y.k = "inf") THEN NaN
    ELSE IF x.k = "inf" \/ y.k = "inf" THEN Inf(x.s * y.s)
    ELSE [k |-> "fin", s |-> x.s * y.s, m |-> x.m * y.m]

FDiv(x, y) ==
    IF IsNaN(x) \/ IsNaN(y) THEN NaN
    ELSE IF x.k = "inf" /\ y.k = "inf" THEN NaN
    ELSE IF IsZero(x) /\ IsZero(y) THEN NaN
    ELSE IF x.k = "inf" THEN Inf(x.s * y.s)
    ELSE IF y.k = "inf" THEN [k |-> "fin", s |-> x.s * y.s, m |-> 0]
    ELSE IF y.m = 0 THEN Inf(x.s * y.s)
    ELSE [k |-> "fin", s |-> x.s * y.s, m |-> x.m \div y.m]

\* x / y has an exact result
Exact(x, y) == (x.k = "fin" /\ y.k = "fin" /\ y.m # 0) => x.m % y.m = 0

\* the == of FLOAT_T
FEq(x, y) == /\ ~IsNaN(x)
             /\ ~IsNaN(y)
             /\ \/ x = y
                \/ IsZero(x) /\ IsZero(y)

Floats == [k : {"fin"}, s : {-1, 1}, m : 0..MaxMag] \cup {Inf(1), Inf(-1), NaN}
InRange(x) == x \in Floats

(***************************************************************************)
(* INT_T words and the bit operations of bitset_add.                       *)
(***************************************************************************)
RECURSIVE Pow2(_)
Pow2(n) == IF n = 0 THEN 1 ELSE 2 * Pow2(n - 1)

Shl(a, n) == a * Pow2(n)

RECURSIVE BitOr(_, _)
BitOr(a, b) ==
    IF a = 0 THEN b
    ELSE IF b = 0 THEN a
    ELSE (IF a % 2 = 1 \/ b % 2 = 1 THEN 1 ELSE 0) + 2 * BitOr(a \div 2, b \div 2)

(***************************************************************************)
(* The operation tables, assigned when the module is loaded.               *)
(***************************************************************************)
VectorSelfOps ==
    [neg |-> "v_neg_s", vadd |-> "v_vadd_s", vsub |-> "v_vsub_s",
     vmul |-> "v_vmul_s", vdiv |-> "v_vdiv_s", sadd |-> "v_sadd_s",
     ssub |-> "v_ssub_s", smul |-> "v_smul_s", sdiv |-> "v_sdiv_s",
     matmul |-> "v_matmul_s", rot |-> "rot_s"]

VectorCopyOps ==
    [neg |-> "v_neg_c", vadd |-> "v_vadd_c", vsub |-> "v_vsub_c",
     vmul |-> "v_vmul_c", vdiv |-> "v_vdiv_c", sadd |-> "v_sadd_c",
     ssub |-> "v_ssub_c", smul |-> "v_smul_c", sdiv |-> "v_sdiv_c",
     matmul |-> "v_matmul_c", rot |-> "rot_c"]

MatrixSelfOps ==
    [neg |-> "m_neg_s", madd |-> "m_madd_s", msub |-> "m_msub_s",
     mmul |-> "m_mmul_s", mdiv |-> "m_mdiv_s", sadd |-> "m_sadd_s",
     ssub |-> "m_ssub_s", smul |-> "m_smul_s", sdiv |-> "m_sdiv_s",
     matmul |-> "m_matmul_s", T |-> "m_transpose_s"]

MatrixCopyOps ==
    [neg |-> "m_neg_c", madd |-> "m_madd_c", msub |-> "m_msub_c",
     mmul |-> "m_mmul_c", mdiv |-> "m_mdiv_c", sadd |-> "m_sadd_c",
     ssub |-> "m_ssub_c", smul |-> "m_smul_c", sdiv |-> "m_sdiv_c",
     matmul |-> "m_matmul_c", T |-> "m_transpose_c"]

InitTables == /\ VSO = VectorSelfOps
              /\ VCO = VectorCopyOps
              /\ MSO = MatrixSelfOps
              /\ MCO = MatrixCopyOps

(***************************************************************************)
(* BitSet.                                                                 *)
(***************************************************************************)
NoCall == [op |-> "none", tbl |-> "none"]

\* calloc(((elements/sizeof(INT_T))+1), sizeof(INT_T)): zeroed words
_BitSet_no_plus_one(n, sz) ==
    [bits |-> [w \in 1..(n \div sz) |-> 0],
     add |-> "bitset_add", free |-> "bitset_free"]

_BitSet(n, sz) ==
    [bits |-> [w \in 1..((n \div sz) + 1) |-> 0],
     add |-> "bitset_add", free |-> "bitset_free"]

\* bitset_add with "self.bits[index] = (1 << rel_index)", the old word dropped
bitset_add_overwrite(self, val, sz, junk) ==
    LET index == val \div sz
        inside == index < Len(self.bits)
        old == IF inside THEN self.bits[index + 1] ELSE junk
        rel_index == val - index * sz
        new == Shl(1, rel_index)
    IN [self |-> IF inside THEN [self EXCEPT !.bits[index + 1] = new] ELSE self,
        ret |-> (old = new),
        index |-> index, rel_index |-> rel_index, inside |-> inside]

\* A word outside the buffer holds anything (junk) and a write to it leaves
\* the buffer as it is.
bitset_add(self, val, sz, junk) ==
    LET index == val \div sz
        inside == index < Len(self.bits)
        old == IF inside THEN self.bits[index + 1] ELSE junk
        rel_index == val - index * sz
        new == BitOr(Shl(1, rel_index), old)
    IN [self |-> IF inside THEN [self EXCEPT !.bits[index + 1] = new] ELSE self,
        ret |-> (old = new),
        index |-> index, rel_index |-> rel_index, inside |-> inside]

bitset_free(self) == [self EXCEPT !.bits = <<>>]

InitBits ==
    /\ sizeof_INT_T \in {4, 8}
    /\ elements \in 0..MaxElements
    /\ bitset = _BitSet(elements, sizeof_INT_T)
    /\ added = {}
    /\ bitcall = NoCall

\* the caller releases the set and builds another
BitSetNew(n) ==
    /\ elements' = n
    /\ bitset' = _BitSet(n, sizeof_INT_T)
    /\ added' = {}
    /\ bitcall' = [op |-> "_BitSet"]
    /\ UNCHANGED <<sizeof_INT_T, arrVars, algVars, tables>>

\* bitset.add(&bitset, val), val within the capacity given to the constructor
BitSetAdd(val, junk) ==
    LET r == bitset_add(bitset, val, sizeof_INT_T, junk) IN
    /\ bitset' = r.self
    /\ added' = added \cup {val}
    /\ bitcall' = [op |-> "add", val |-> val, ret |-> r.ret, index |-> r.index,
                   rel_index |-> r.rel_index, inside |-> r.inside,
                   earlier |-> (val \in added)]
    /\ UNCHANGED <<sizeof_INT_T, elements, arrVars, algVars, tables>>

NextBits ==
    \/ \E n \in 0..MaxElements : BitSetNew(n)
    \/ \E val \in 0..elements, junk \in {0, Pow2(sizeof_INT_T) - 1} :
           BitSetAdd(val, junk)

(***************************************************************************)
(* IArray and FArray.  A buffer is a sequence, element at offset o being   *)
(* arr[o + 1].  With bounds checking compiled in (checked), get and set    *)
(* call ..._valid_indices first, and an IndexError leaves the access       *)
(* undone.  An access outside the buffer reads anything (junk), and its    *)
(* write leaves the buffer as it is.                                       *)
(***************************************************************************)
_IArray(arr, shape) ==
    [arr |-> arr, shape |-> shape, get |-> "iarray_get", set |-> "iarray_set"]

\* TRUE: IndexError is raised
iarray_valid_indices(self, index) ==
    index[1] > self.shape[1] \/ index[2] > self.shape[2]

iarray_offset_by_rows(self, index) == index[1] * self.shape[1] + index[2]

iarray_offset(self, index) == index[1] * self.shape[2] + index[2]

InBuffer(self, off) == 0 <= off /\ off < Len(self.arr)

iarray_get(self, index, checked, junk) ==
    LET off == iarray_offset(self, index) IN
    IF checked /\ iarray_valid_indices(self, index)
    THEN [self |-> self, raised |-> TRUE, accessed |-> FALSE, inside |-> FALSE,
          ret |-> [kind |-> "none"]]
    ELSE [self |-> self, raised |-> FALSE, accessed |-> TRUE,
          inside |-> InBuffer(self, off),
          ret |-> [kind |-> "val",
                   val |-> IF InBuffer(self, off) THEN self.arr[off + 1] ELSE junk]]

iarray_set(self, index, val, checked) ==
    LET off == iarray_offset(self, index) IN
    IF checked /\ iarray_valid_indices(self, index)
    THEN [self |-> self, raised |-> TRUE, accessed |-> FALSE, inside |-> FALSE]
    ELSE [self |-> IF InBuffer(self, off)
                   THEN [self EXCEPT !.arr[off + 1] = val] ELSE self,
          raised |-> FALSE, accessed |-> TRUE, inside |-> InBuffer(self, off)]

_FArray(arr, shape) ==
    [arr |-> arr, shape |-> shape, get |-> "farray_get", set |-> "farray_set"]

farray_valid_indices(self, index) ==
    index[1] > self.shape[1] \/ index[2] > self.shape[2]

farray_offset_by_rows(self, index) == index[1] * self.shape[1] + index[2]

farray_offset(self, index) == index[1] * self.shape[2] + index[2]

farray_get(self, index, checked, junk) ==
    LET off == farray_offset(self, index) IN
    IF checked /\ farray_valid_indices(self, index)
    THEN [self |-> self, raised |-> TRUE, accessed |-> FALSE, inside |-> FALSE,
          ret |-> [kind |-> "none"]]
    ELSE [self |-> self, raised |-> FALSE, accessed |-> TRUE,
          inside |-> InBuffer(self, off),
          ret |-> [kind |-> "val",
                   val |-> IF InBuffer(self, off) THEN self.arr[off + 1] ELSE junk]]

farray_set(self, index, val, checked) ==
    LET off == farray_offset(self, index) IN
    IF checked /\ farray_valid_indices(self, index)
    THEN [self |-> self, raised |-> TRUE, accessed |-> FALSE, inside |-> FALSE]
    ELSE [self |-> IF InBuffer(self, off)
                   THEN [self EXCEPT !.arr[off + 1] = val] ELSE self,
          raised |-> FALSE, accessed |-> TRUE, inside |-> InBuffer(self, off)]

\* the element values and shapes the caller uses
IVals == {0, 42}
FVals == {Fin(0), Fin(1)}
Shapes == {sh \in (1..MaxCells) \X (1..MaxCells) : sh[1] * sh[2] <= MaxCells}
\* the indices the caller passes: in range, and one off on either side
Indices(self) == (-1..self.shape[1]) \X (-1..self.shape[2])
InShape(self, index) == /\ 0 <= index[1] /\ index[1] < self.shape[1]
                        /\ 0 <= index[2] /\ index[2] < self.shape[2]

\* The caller holds one array, over a buffer it allocated and filled.
InitArr ==
    /\ boundsChecking \in BOOLEAN
    /\ live \in {"IArray", "FArray"}
    /\ \E sh \in Shapes :
          \/ /\ live = "IArray"
             /\ iarray \in {_IArray(b, sh) : b \in [1..(sh[1] * sh[2]) -> IVals]}
             /\ farray = _FArray(<<>>, <<0, 0>>)
          \/ /\ live = "FArray"
             /\ farray \in {_FArray(b, sh) : b \in [1..(sh[1] * sh[2]) -> FVals]}
             /\ iarray = _IArray(<<>>, <<0, 0>>)
    /\ arrcall = NoCall

ArrFrame == UNCHANGED <<boundsChecking, live, bitVars, algVars, tables>>

IArrayGet(index, junk) ==
    LET r == iarray_get(iarray, index, boundsChecking, junk) IN
    /\ live = "IArray"
    /\ arrcall = NoCall
    /\ iarray' = r.self
    /\ arrcall' = [op |-> "get", index |-> index, checked |-> boundsChecking,
                   raised |-> r.raised, accessed |-> r.accessed,
                   inside |-> r.inside, ret |-> r.ret]
    /\ UNCHANGED farray
    /\ ArrFrame

IArraySet(index, val) ==
    LET r == iarray_set(iarray, index, val, boundsChecking) IN
    /\ live = "IArray"
    /\ arrcall = NoCall
    /\ iarray' = r.self
    /\ arrcall' = [op |-> "set", index |-> index, checked |-> boundsChecking,
                   raised |-> r.raised, accessed |-> r.accessed,
                   inside |-> r.inside, val |-> val]
    /\ UNCHANGED farray
    /\ ArrFrame

FArrayGet(index, junk) ==
    LET r == farray_get(farray, index, boundsChecking, junk) IN
    /\ live = "FArray"
    /\ arrcall = NoCall
    /\ farray' = r.self
    /\ arrcall' = [op |-> "get", index |-> index, checked |-> boundsChecking,
                   raised |-> r.raised, accessed |-> r.accessed,
                   inside |-> r.inside, ret |-> r.ret]
    /\ UNCHANGED iarray
    /\ ArrFrame

FArraySet(index, val) ==
    LET r == farray_set(farray, index, val, boundsChecking) IN
    /\ live = "FArray"
    /\ arrcall = NoCall
    /\ farray' = r.self
    /\ arrcall' = [op |-> "set", index |-> index, checked |-> boundsChecking,
                   raised |-> r.raised, accessed |-> r.accessed,
                   inside |-> r.inside, val |-> val]
    /\ UNCHANGED iarray
    /\ ArrFrame

\* the caller has used what the last call gave it
ArrResultUsed ==
    /\ arrcall # NoCall
    /\ arrcall' = NoCall
    /\ UNCHANGED <<iarray, farray>>
    /\ ArrFrame

NextArr ==
    \/ ArrResultUsed
    \/ \E index \in Indices(iarray), junk \in IVals : IArrayGet(index, junk)
    \/ \E index \in Indices(iarray), val \in IVals : IArraySet(index, val)
    \/ \E index \in Indices(farray), junk \in FVals : FArrayGet(index, junk)
    \/ \E index \in Indices(farray), val \in FVals : FArraySet(index, val)

(***************************************************************************)
(* Vector2D.                                                               *)
(***************************************************************************)
PtrSelf == [kind |-> "ptr", val |-> "self"]    \* the pointer to the receiver
VecRet(v) == [kind |-> "vec", val |-> v]
MatRet(m) == [kind |-> "mat", val |-> m]
BoolRet(b) == [kind |-> "bool", val |-> b]
FloatRet(f) == [kind |-> "float", val |-> f]

_Vector2D_tables_swapped(x, y) ==
    [x |-> x, y |-> y, self |-> VCO, copy |-> VSO,
     equals |-> "v_equals", vecmul |-> "v_vecmul", dot |-> "dot", mag |-> "mag"]

_Vector2D(x, y) ==
    [x |-> x, y |-> y, self |-> VSO, copy |-> VCO,
     equals |-> "v_equals", vecmul |-> "v_vecmul", dot |-> "dot", mag |-> "mag"]

_Matrix2x2(a, b, c, d) ==
    [a |-> a, b |-> b, c |-> c, d |-> d, self |-> MSO, copy |-> MCO,
     equals |-> "m_equals", vecmul |-> "m_vecmul"]

v_equals(self, w) ==
    [self |-> self, ret |-> BoolRet(FEq(self.x, w.x) /\ FEq(self.y, w.y))]

v_neg_s(self) ==
    [self |-> [self EXCEPT !.x = FNeg(self.x), !.y = FNeg(self.y)], ret |-> PtrSelf]

v_vadd_s(self, w) ==
    [self |-> [self EXCEPT !.x = FAdd(self.x, w.x), !.y = FAdd(self.y, w.y)],
     ret |-> PtrSelf]

v_vsub_s(self, w) ==
    [self |-> [self EXCEPT !.x = FSub(self.x, w.x), !.y = FSub(self.y, w.y)],
     ret |-> PtrSelf]

v_vmul_s(self, w) ==
    [self |-> [self EXCEPT !.x = FMul(self.x, w.x), !.y = FMul(self.y, w.y)],
     ret |-> PtrSelf]

v_vdiv_s(self, w) ==
    [self |-> [self EXCEPT !.x = FDiv(self.x, w.x), !.y = FDiv(self.y, w.y)],
     ret |-> PtrSelf]

v_sadd_s(self, s) ==
    [self |-> [self EXCEPT !.x = FAdd(self.x, s), !.y = FAdd(self.y, s)],
     ret |-> PtrSelf]

v_ssub_s(self, s) ==
    [self |-> [self EXCEPT !.x = FSub(self.x, s), !.y = FSub(self.y, s)],
     ret |-> PtrSelf]

v_smul_s(self, s) ==
    [self |-> [self EXCEPT !.x = FMul(self.x, s), !.y = FMul(self.y, s)],
     ret |-> PtrSelf]

v_sdiv_s(self, s) ==
    [self |-> [self EXCEPT !.x = FDiv(self.x, s), !.y = FDiv(self.y, s)],
     ret |-> PtrSelf]

\* v_matmul_s assigning self.x first and reading it again for self.y
v_matmul_s_sequential(self, m) ==
    LET s1 == [self EXCEPT !.x = FAdd(FMul(self.x, m.a), FMul(self.y, m.c))]
    IN [self |-> [s1 EXCEPT !.y = FAdd(FMul(s1.x, m.b), FMul(s1.y, m.d))],
        ret |-> PtrSelf]

\* the right-hand side is evaluated whole before either component is assigned
v_matmul_s(self, m) ==
    [self |-> [self EXCEPT !.x = FAdd(FMul(self.x, m.a), FMul(self.y, m.c)),
                           !.y = FAdd(FMul(self.x, m.b), FMul(self.y, m.d))],
     ret |-> PtrSelf]

rot_s(self) ==
    [self |-> [self EXCEPT !.x = FNeg(self.y), !.y = self.x], ret |-> PtrSelf]

\* v_neg_c negating the receiver in place and returning a copy of it
v_neg_c_in_place(self) ==
    LET s1 == [self EXCEPT !.x = FNeg(self.x), !.y = FNeg(self.y)]
    IN [self |-> s1, ret |-> VecRet(_Vector2D(s1.x, s1.y))]

v_neg_c(self) ==
    [self |-> self, ret |-> VecRet(_Vector2D(FNeg(self.x), FNeg(self.y)))]

v_vadd_c(self, w) ==
    [self |-> self,
     ret |-> VecRet(_Vector2D(FAdd(self.x, w.x), FAdd(self.y, w.y)))]

v_vsub_c(self, w) ==
    [self |-> self,
     ret |-> VecRet(_Vector2D(FSub(self.x, w.x), FSub(self.y, w.y)))]

v_vmul_c(self, w) ==
    [self |-> self,
     ret |-> VecRet(_Vector2D(FMul(self.x, w.x), FMul(self.y, w.y)))]

v_vdiv_c(self, w) ==
    [self |-> self,
     ret |-> VecRet(_Vector2D(FDiv(self.x, w.x), FDiv(self.y, w.y)))]

v_sadd_c(self, s) ==
    [self |-> self, ret |-> VecRet(_Vector2D(FAdd(self.x, s), FAdd(self.y, s)))]

\* as the source has it: self.x + s, self.y + s
v_ssub_c(self, s) ==
    [self |-> self, ret |-> VecRet(_Vector2D(FAdd(self.x, s), FAdd(self.y, s)))]

v_smul_c(self, s) ==
    [self |-> self, ret |-> VecRet(_Vector2D(FMul(self.x, s), FMul(self.y, s)))]

v_sdiv_c(self, s) ==
    [self |-> self, ret |-> VecRet(_Vector2D(FDiv(self.x, s), FDiv(self.y, s)))]

v_matmul_c(self, m) ==
    [self |-> self,
     ret |-> VecRet(_Vector2D(FAdd(FMul(self.x, m.a), FMul(self.y, m.c)),
                              FAdd(FMul(self.x, m.b), FMul(self.y, m.d))))]

rot_c(self) ==
    [self |-> self, ret |-> VecRet(_Vector2D(FNeg(self.y), self.x))]

dot(self, w) ==
    [self |-> self, ret |-> FloatRet(FAdd(FMul(self.x, w.x), FMul(self.y, w.y)))]

v_vecmul(self, v) ==
    [self |-> self,
     ret |-> MatRet(_Matrix2x2(FMul(self.x, v.x), FMul(self.x, v.y),
                               FMul(self.y, v.x), FMul(self.y, v.y)))]

(***************************************************************************)
(* Matrix2x2, row-major [[a, b], [c, d]].                                  *)
(***************************************************************************)
m_equals(self, m) ==
    [self |-> self,
     ret |-> BoolRet(/\ FEq(self.a, m.a) /\ FEq(self.b, m.b)
                     /\ FEq(self.c, m.c) /\ FEq(self.d, m.d))]

m_vecmul(self, v) ==
    [self |-> self,
     ret |-> VecRet(_Vector2D(FAdd(FMul(self.a, v.x), FMul(self.b, v.y)),
                              FAdd(FMul(self.c, v.x), FMul(self.d, v.y))))]

m_neg_s(self) ==
    [self |-> [self EXCEPT !.a = FNeg(self.a), !.b = FNeg(self.b),
                           !.c = FNeg(self.c), !.d = FNeg(self.d)],
     ret |-> PtrSelf]

m_madd_s(self, m) ==
    [self |-> [self EXCEPT !.a = FAdd(self.a, m.a), !.b = FAdd(self.b, m.b),
                           !.c = FAdd(self.c, m.c), !.d = FAdd(self.d, m.d)],
     ret |-> PtrSelf]

m_msub_s(self, m) ==
    [self |-> [self EXCEPT !.a = FSub(self.a, m.a), !.b = FSub(self.b, m.b),
                           !.c = FSub(self.c, m.c), !.d = FSub(self.d, m.d)],
     ret |-> PtrSelf]

m_mmul_s(self, m) ==
    [self |-> [self EXCEPT !.a = FMul(self.a, m.a), !.b = FMul(self.b, m.b),
                           !.c = FMul(self.c, m.c), !.d = FMul(self.d, m.d)],
     ret |-> PtrSelf]

m_mdiv_s(self, m) ==
    [self |-> [self EXCEPT !.a = FDiv(self.a, m.a), !.b = FDiv(self.b, m.b),
                           !.c = FDiv(self.c, m.c), !.d = FDiv(self.d, m.d)],
     ret |-> PtrSelf]

m_sadd_s(self, s) ==
    [self |-> [self EXCEPT !.a = FAdd(self.a, s), !.b = FAdd(self.b, s),
                           !.c = FAdd(self.c, s), !.d = FAdd(self.d, s)],
     ret |-> PtrSelf]

m_ssub_s(self, s) ==
    [self |-> [self EXCEPT !.a = FSub(self.a, s), !.b = FSub(self.b, s),
                           !.c = FSub(self.c, s), !.d = FSub(self.d, s)],
     ret |-> PtrSelf]

m_smul_s(self, s) ==
    [self |-> [self EXCEPT !.a = FMul(self.a, s), !.b = FMul(self.b, s),
                           !.c = FMul(self.c, s), !.d = FMul(self.d, s)],
     ret |-> PtrSelf]

m_sdiv_s(self, s) ==
    [self |-> [self EXCEPT !.a = FDiv(self.a, s), !.b = FDiv(self.b, s),
                           !.c = FDiv(self.c, s), !.d = FDiv(self.d, s)],
     ret |-> PtrSelf]

\* the right-hand side is evaluated whole before any component is assigned
m_matmul_s(self, m) ==
    [self |-> [self EXCEPT !.a = FAdd(FMul(self.a, m.a), FMul(self.b, m.c)),
                           !.b = FAdd(FMul(self.a, m.b), FMul(self.b, m.d)),
                           !.c = FAdd(FMul(self.c, m.a), FMul(self.d, m.c)),
                           !.d = FAdd(FMul(self.c, m.b), FMul(self.d, m.d))],
     ret |-> PtrSelf]

\* m_transpose_s as "self.b = self.c; self.c = self.b"
m_transpose_s_sequential(self) ==
    LET s1 == [self EXCEPT !.b = self.c]
    IN [self |-> [s1 EXCEPT !.c = s1.b], ret |-> PtrSelf]

m_transpose_s(self) ==
    [self |-> [self EXCEPT !.b = self.c, !.c = self.b], ret |-> PtrSelf]

m_neg_c(self) ==
    [self |-> self,
     ret |-> MatRet(_Matrix2x2(FNeg(self.a), FNeg(self.b),
                               FNeg(self.c), FNeg(self.d)))]

m_madd_c(self, m) ==
    [self |-> self,
     ret |-> MatRet(_Matrix2x2(FAdd(self.a, m.a), FAdd(self.b, m.b),
                               FAdd(self.c, m.c), FAdd(self.d, m.d)))]

m_msub_c(self, m) ==
    [self |-> self,
     ret |-> MatRet(_Matrix2x2(FSub(self.a, m.a), FSub(self.b, m.b),
                               FSub(self.c, m.c), FSub(self.d, m.d)))]

m_mmul_c(self, m) ==
    [self |-> self,
     ret |-> MatRet(_Matrix2x2(FMul(self.a, m.a), FMul(self.b, m.b),
                               FMul(self.c, m.c), FMul(self.d, m.d)))]

m_mdiv_c(self, m) ==
    [self |-> self,
     ret |-> MatRet(_Matrix2x2(FDiv(self.a, m.a), FDiv(self.b, m.b),
                               FDiv(self.c, m.c), FDiv(self.d, m.d)))]

m_sadd_c(self, s) ==
    [self |-> self,
     ret |-> MatRet(_Matrix2x2(FAdd(self.a, s), FAdd(self.b, s),
                               FAdd(self.c, s), FAdd(self.d, s)))]

m_ssub_c(self, s) ==
    [self |-> self,
     ret |-> MatRet(_Matrix2x2(FSub(self.a, s), FSub(self.b, s),
                               FSub(self.c, s), FSub(self.d, s)))]

m_smul_c(self, s) ==
    [self |-> self,
     ret |-> MatRet(_Matrix2x2(FMul(self.a, s), FMul(self.b, s),
                               FMul(self.c, s), FMul(self.d, s)))]

m_sdiv_c(self, s) ==
    [self |-> self,
     ret |-> MatRet(_Matrix2x2(FDiv(self.a, s), FDiv(self.b, s),
                               FDiv(self.c, s), FDiv(self.d, s)))]

\* m_matmul_c multiplying element by element, as m_mmul_c does
m_matmul_c_elementwise(self, m) ==
    [self |-> self,
     ret |-> MatRet(_Matrix2x2(FMul(self.a, m.a), FMul(self.b, m.b),
                               FMul(self.c, m.c), FMul(self.d, m.d)))]

m_matmul_c(self, m) ==
    [self |-> self,
     ret |-> MatRet(_Matrix2x2(FAdd(FMul(self.a, m.a), FMul(self.b, m.c)),
                               FAdd(FMul(self.a, m.b), FMul(self.b, m.d)),
                               FAdd(FMul(self.c, m.a), FMul(self.d, m.c)),
                               FAdd(FMul(self.c, m.b), FMul(self.d, m.d))))]

m_transpose_c(self) ==
    [self |-> self, ret |-> MatRet(_Matrix2x2(self.a, self.c, self.b, self.d))]

(***************************************************************************)
(* A call through a function pointer: fn is the name the table field or    *)
(* the member holds, arg the tagged argument.                              *)
(***************************************************************************)
NoArg == [kind |-> "none"]

CallV(fn, self, arg) ==
    CASE fn = "v_neg_s" -> v_neg_s(self)
      [] fn = "v_vadd_s" -> v_vadd_s(self, arg.val)
      [] fn = "v_vsub_s" -> v_vsub_s(self, arg.val)
      [] fn = "v_vmul_s" -> v_vmul_s(self, arg.val)
      [] fn = "v_vdiv_s" -> v_vdiv_s(self, arg.val)
      [] fn = "v_sadd_s" -> v_sadd_s(self, arg.val)
      [] fn = "v_ssub_s" -> v_ssub_s(self, arg.val)
      [] fn = "v_smul_s" -> v_smul_s(self, arg.val)
      [] fn = "v_sdiv_s" -> v_sdiv_s(self, arg.val)
      [] fn = "v_matmul_s" -> v_matmul_s(self, arg.val)
      [] fn = "rot_s" -> rot_s(self)
      [] fn = "v_neg_c" -> v_neg_c(self)
      [] fn = "v_vadd_c" -> v_vadd_c(self, arg.val)
      [] fn = "v_vsub_c" -> v_vsub_c(self, arg.val)
      [] fn = "v_vmul_c" -> v_vmul_c(self, arg.val)
      [] fn = "v_vdiv_c" -> v_vdiv_c(self, arg.val)
      [] fn = "v_sadd_c" -> v_sadd_c(self, arg.val)
      [] fn = "v_ssub_c" -> v_ssub_c(self, arg.val)
      [] fn = "v_smul_c" -> v_smul_c(self, arg.val)
      [] fn = "v_sdiv_c" -> v_sdiv_c(self, arg.val)
      [] fn = "v_matmul_c" -> v_matmul_c(self, arg.val)
      [] fn = "rot_c" -> rot_c(self)
      [] fn = "v_equals" -> v_equals(self, arg.val)
      [] fn = "v_vecmul" -> v_vecmul(self, arg.val)
      [] fn = "dot" -> dot(self, arg.val)

CallM(fn, self, arg) ==
    CASE fn = "m_neg_s" -> m_neg_s(self)
      [] fn = "m_madd_s" -> m_madd_s(self, arg.val)
      [] fn = "m_msub_s" -> m_msub_s(self, arg.val)
      [] fn = "m_mmul_s" -> m_mmul_s(self, arg.val)
      [] fn = "m_mdiv_s" -> m_mdiv_s(self, arg.val)
      [] fn = "m_sadd_s" -> m_sadd_s(self, arg.val)
      [] fn = "m_ssub_s" -> m_ssub_s(self, arg.val)
      [] fn = "m_smul_s" -> m_smul_s(self, arg.val)
      [] fn = "m_sdiv_s" -> m_sdiv_s(self, arg.val)
      [] fn = "m_matmul_s" -> m_matmul_s(self, arg.val)
      [] fn = "m_transpose_s" -> m_transpose_s(self)
      [] fn = "m_neg_c" -> m_neg_c(self)
      [] fn = "m_madd_c" -> m_madd_c(self, arg.val)
      [] fn = "m_msub_c" -> m_msub_c(self, arg.val)
      [] fn = "m_mmul_c" -> m_mmul_c(self, arg.val)
      [] fn = "m_mdiv_c" -> m_mdiv_c(self, arg.val)
      [] fn = "m_sadd_c" -> m_sadd_c(self, arg.val)
      [] fn = "m_ssub_c" -> m_ssub_c(self, arg.val)
      [] fn = "m_smul_c" -> m_smul_c(self, arg.val)
      [] fn = "m_sdiv_c" -> m_sdiv_c(self, arg.val)
      [] fn = "m_matmul_c" -> m_matmul_c(self, arg.val)
      [] fn = "m_transpose_c" -> m_transpose_c(self)
      [] fn = "m_equals" -> m_equals(self, arg.val)
      [] fn = "m_vecmul" -> m_vecmul(self, arg.val)

(***************************************************************************)
(* The caller of the algebra: it constructs a receiver and calls through   *)
(* its self table, its copy table and its direct members.  A call is taken *)
(* where every division is exact and every finite result is within MaxMag. *)
(***************************************************************************)
ArgFloats == {Fin(0), Fin(1), Fin(-1)}
ArgScalars == {Fin(0), Fin(1), Fin(2)}
ArgVecs == {_Vector2D(x, y) : x \in ArgFloats, y \in ArgFloats}
Identity == _Matrix2x2(Fin(1), Fin(0), Fin(0), Fin(1))
ArgMats == {Identity,
            _Matrix2x2(Fin(0), Fin(1), Fin(-1), Fin(0)),
            _Matrix2x2(Fin(1), Fin(1), Fin(0), Fin(1))}

VecArg(w) == [kind |-> "vec", val |-> w]
MatArg(m) == [kind |-> "mat", val |-> m]
ScalarArg(f) == [kind |-> "scalar", val |-> f]

VecOps == {"neg", "vadd", "vsub", "vmul", "vdiv", "sadd", "ssub", "smul",
           "sdiv", "matmul", "rot"}
MatOps == {"neg", "madd", "msub", "mmul", "mdiv", "sadd", "ssub", "smul",
           "sdiv", "matmul", "T"}
VecMembers == {"equals", "vecmul", "dot"}
MatMembers == {"equals", "vecmul"}

VecArgs(op) ==
    CASE op \in {"neg", "rot"} -> {NoArg}
      [] op \in {"vadd", "vsub", "vmul", "vdiv", "equals", "vecmul", "dot"} ->
             {VecArg(w) : w \in ArgVecs}
      [] op \in {"sadd", "ssub", "smul", "sdiv"} ->
             {ScalarArg(f) : f \in ArgScalars}
      [] op = "matmul" -> {MatArg(m) : m \in ArgMats}

MatArgs(op) ==
    CASE op \in {"neg", "T"} -> {NoArg}
      [] op \in {"madd", "msub", "mmul", "mdiv", "matmul", "equals"} ->
             {MatArg(m) : m \in ArgMats}
      [] op \in {"sadd", "ssub", "smul", "sdiv"} ->
             {ScalarArg(f) : f \in ArgScalars}
      [] op = "vecmul" -> {VecArg(w) : w \in ArgVecs}

VecComps(v) == {v.x, v.y}
MatComps(m) == {m.a, m.b, m.c, m.d}
RetComps(ret) ==
    CASE ret.kind = "vec" -> VecComps(ret.val)
      [] ret.kind = "mat" -> MatComps(ret.val)
      [] ret.kind = "float" -> {ret.val}
      [] OTHER -> {}

VecExact(op, self, arg) ==
    CASE op = "vdiv" -> Exact(self.x, arg.val.x) /\ Exact(self.y, arg.val.y)
      [] op = "sdiv" -> Exact(self.x, arg.val) /\ Exact(self.y, arg.val)
      [] OTHER -> TRUE

MatExact(op, self, arg) ==
    CASE op = "mdiv" -> /\ Exact(self.a, arg.val.a) /\ Exact(self.b, arg.val.b)
                        /\ Exact(self.c, arg.val.c) /\ Exact(self.d, arg.val.d)
      [] op = "sdiv" -> \A f \in MatComps(self) : Exact(f, arg.val)
      [] OTHER -> TRUE

InitAlg ==
    /\ receiver \in {"Vector2D", "Matrix2x2"}
    /\ vec = _Vector2D(Fin(0), Fin(0))
    /\ mat = _Matrix2x2(Fin(0), Fin(0), Fin(0), Fin(0))
    /\ veccall = NoCall
    /\ matcall = NoCall

AlgFrameV == UNCHANGED <<receiver, mat, matcall, bitVars, arrVars, tables>>
AlgFrameM == UNCHANGED <<receiver, vec, veccall, bitVars, arrVars, tables>>

\* vec = _Vector2D(x, y)
VecNew(x, y) ==
    /\ receiver = "Vector2D"
    /\ veccall = NoCall
    /\ vec' = _Vector2D(x, y)
    /\ veccall' = [tbl |-> "new", op |-> "_Vector2D", arg |-> NoArg,
                   ret |-> VecRet(_Vector2D(x, y))]
    /\ AlgFrameV

VecCall(tbl, op, fn, arg) ==
    LET r == CallV(fn, vec, arg) IN
    /\ receiver = "Vector2D"
    /\ veccall = NoCall
    /\ VecExact(op, vec, arg)
    /\ \A f \in VecComps(r.self) \cup RetComps(r.ret) : InRange(f)
    /\ vec' = r.self
    /\ veccall' = [tbl |-> tbl, op |-> op, arg |-> arg, pre |-> vec, ret |-> r.ret]
    /\ AlgFrameV

\* vec.self.op(&vec, arg)
VecSelfCall(op, arg) == VecCall("self", op, vec.self[op], arg)
\* vec.copy.op(&vec, arg)
VecCopyCall(op, arg) == VecCall("copy", op, vec.copy[op], arg)
\* vec.equals(&vec, w), vec.vecmul(&vec, w), vec.dot(&vec, w)
VecMemberCall(op, arg) == VecCall("member", op, vec[op], arg)

\* mat = _Matrix2x2(a, b, c, d)
MatNew(a, b, c, d) ==
    /\ receiver = "Matrix2x2"
    /\ matcall = NoCall
    /\ mat' = _Matrix2x2(a, b, c, d)
    /\ matcall' = [tbl |-> "new", op |-> "_Matrix2x2", arg |-> NoArg,
                   ret |-> MatRet(_Matrix2x2(a, b, c, d))]
    /\ AlgFrameM

MatCall(tbl, op, fn, arg) ==
    LET r == CallM(fn, mat, arg) IN
    /\ receiver = "Matrix2x2"
    /\ matcall = NoCall
    /\ MatExact(op, mat, arg)
    /\ \A f \in MatComps(r.self) \cup RetComps(r.ret) : InRange(f)
    /\ mat' = r.self
    /\ matcall' = [tbl |-> tbl, op |-> op, arg |-> arg, pre |-> mat, ret |-> r.ret]
    /\ AlgFrameM

MatSelfCall(op, arg) == MatCall("self", op, mat.self[op], arg)
MatCopyCall(op, arg) == MatCall("copy", op, mat.copy[op], arg)
MatMemberCall(op, arg) == MatCall("member", op, mat[op], arg)

\* the caller has used what the last call gave it
VecResultUsed ==
    /\ veccall # NoCall
    /\ veccall' = NoCall
    /\ UNCHANGED vec
    /\ AlgFrameV

MatResultUsed ==
    /\ matcall # NoCall
    /\ matcall' = NoCall
    /\ UNCHANGED mat
    /\ AlgFrameM

NextAlg ==
    \/ VecResultUsed
    \/ MatResultUsed
    \/ \E x \in ArgFloats, y \in ArgFloats : VecNew(x, y)
    \/ \E op \in VecOps : \E arg \in VecArgs(op) : VecSelfCall(op, arg)
    \/ \E op \in VecOps : \E arg \in VecArgs(op) : VecCopyCall(op, arg)
    \/ \E op \in VecMembers : \E arg \in VecArgs(op) : VecMemberCall(op, arg)
    \/ \E a \in ArgFloats, b \in ArgFloats, c \in ArgFloats, d \in ArgFloats :
           MatNew(a, b, c, d)
    \/ \E op \in MatOps : \E arg \in MatArgs(op) : MatSelfCall(op, arg)
    \/ \E op \in MatOps : \E arg \in MatArgs(op) : MatCopyCall(op, arg)
    \/ \E op \in MatMembers : \E arg \in MatArgs(op) : MatMemberCall(op, arg)

(***************************************************************************)
(* The specifications: one caller for each part of the module.             *)
(***************************************************************************)
IdleBits ==
    /\ sizeof_INT_T = 4
    /\ elements = 0
    /\ bitset = _BitSet(0, 4)
    /\ added = {}
    /\ bitcall = NoCall

IdleArr ==
    /\ boundsChecking = FALSE
    /\ live = "none"
    /\ iarray = _IArray(<<>>, <<0, 0>>)
    /\ farray = _FArray(<<>>, <<0, 0>>)
    /\ arrcall = NoCall

IdleAlg ==
    /\ receiver = "none"
    /\ vec = _Vector2D(Fin(0), Fin(0))
    /\ mat = _Matrix2x2(Fin(0), Fin(0), Fin(0), Fin(0))
    /\ veccall = NoCall
    /\ matcall = NoCall

InitSpecBits == InitTables /\ InitBits /\ IdleArr /\ IdleAlg
InitSpecArr == InitTables /\ IdleBits /\ InitArr /\ IdleAlg
InitSpecAlg == InitTables /\ IdleBits /\ IdleArr /\ InitAlg

SpecBits == InitSpecBits /\ [][NextBits]_vars
SpecArr == InitSpecArr /\ [][NextArr]_vars
SpecAlg == InitSpecAlg /\ [][NextAlg]_vars

(***************************************************************************)
(* The claims.                                                             *)
(***************************************************************************)

\* C1: every add(v) within the capacity returns TRUE exactly when an earlier
\* add since construction added the same v: the first add(v) returns FALSE,
\* a repeated one TRUE, whatever other values were added in between.
C1_AddReportsEarlierAdd ==
    bitcall.op = "add" => (bitcall.ret <=> bitcall.earlier)

\* a repeated add, after a different value was added as well
C1_Witness ==
    /\ bitcall.op = "add"
    /\ bitcall.ret
    /\ bitcall.earlier
    /\ Cardinality(added) >= 2

\* C10: every add(v) with 0 <= v <= n reads and writes a word inside the
\* buffer of (n / sizeof(INT_T)) + 1 words the constructor allocated, and
\* shifts by a bit position within 0 .. sizeof(INT_T) - 1.
C10_AddStaysInBuffer ==
    bitcall.op = "add" =>
        /\ Len(bitset.bits) = (elements \div sizeof_INT_T) + 1
        /\ bitcall.index < Len(bitset.bits)
        /\ bitcall.inside
        /\ 0 <= bitcall.rel_index
        /\ bitcall.rel_index <= sizeof_INT_T - 1

\* the largest value of the capacity is added, and it lies beyond the first word
C10_Witness ==
    /\ bitcall.op = "add"
    /\ bitcall.val = elements
    /\ bitcall.index >= 1
    /\ bitcall.index = Len(bitset.bits) - 1

\* the element get((i, j)) reads, bounds checking aside
IRead(self, index) == iarray_get(self, index, FALSE, 0).ret.val
FRead(self, index) == farray_get(self, index, FALSE, Fin(0)).ret.val
InRangeIndices(self) == (0..(self.shape[1] - 1)) \X (0..(self.shape[2] - 1))

C2_Step ==
    /\ (live = "IArray" /\ arrcall'.op = "set" /\ InShape(iarray, arrcall'.index)) =>
           \A idx \in InRangeIndices(iarray) :
               IRead(iarray', idx) = IF idx = arrcall'.index THEN arrcall'.val
                                     ELSE IRead(iarray, idx)
    /\ (live = "IArray" /\ arrcall'.op = "get" /\ InShape(iarray, arrcall'.index)) =>
           /\ arrcall'.ret = [kind |-> "val", val |-> IRead(iarray, arrcall'.index)]
           /\ arrcall'.inside
           /\ iarray' = iarray
    /\ (live = "FArray" /\ arrcall'.op = "set" /\ InShape(farray, arrcall'.index)) =>
           \A idx \in InRangeIndices(farray) :
               FRead(farray', idx) = IF idx = arrcall'.index THEN arrcall'.val
                                     ELSE FRead(farray, idx)
    /\ (live = "FArray" /\ arrcall'.op = "get" /\ InShape(farray, arrcall'.index)) =>
           /\ arrcall'.ret = [kind |-> "val", val |-> FRead(farray, arrcall'.index)]
           /\ arrcall'.inside
           /\ farray' = farray

\* C2: a set at an in-range (i, j) makes get((i, j)) return the value set and
\* leaves what get returns at every other in-range index as it was, and an
\* in-range get returns the element without changing the array; so get((i, j))
\* returns the most recent value set there, or the initial content.
C2_SetThenGet == [][C2_Step]_vars

\* set((1, 2), 42) on a 2x3 integer array whose first element stays 0
C2_Witness ==
    /\ live = "IArray"
    /\ iarray.shape = <<2, 3>>
    /\ arrcall.op = "set"
    /\ arrcall.index = <<1, 2>>
    /\ arrcall.val = 42
    /\ IRead(iarray, <<1, 2>>) = 42
    /\ IRead(iarray, <<0, 0>>) = 0
    /\ IRead(iarray, <<0, 2>>) = 0

LiveArray == IF live = "IArray" THEN iarray ELSE farray

\* C3: with bounds checking enabled, every get or set whose index is not
\* within 0 <= row < rows and 0 <= col < cols is reported as an IndexError
\* and accesses no element.
C3_OutOfRangeIsReported ==
    (/\ arrcall.op \in {"get", "set"}
     /\ arrcall.checked
     /\ ~InShape(LiveArray, arrcall.index)) =>
        (arrcall.raised /\ ~arrcall.accessed)

VecCalled(tbl) == veccall.tbl = tbl /\ veccall.op \in VecOps \cup VecMembers
MatCalled(tbl) == matcall.tbl = tbl /\ matcall.op \in MatOps \cup MatMembers

\* C4: every copy-table operation of Vector2D and of Matrix2x2 leaves every
\* component of its receiver as it was and returns a value of its own (the
\* argument is passed by value and is not the callee's to change); a direct
\* member leaves the receiver unchanged as well; a self-table operation
\* returns the receiver itself.
C4_CopyLeavesReceiver ==
    /\ VecCalled("copy") => (vec = veccall.pre /\ veccall.ret.kind = "vec")
    /\ VecCalled("member") => vec = veccall.pre
    /\ VecCalled("self") => veccall.ret = PtrSelf
    /\ MatCalled("copy") => (mat = matcall.pre /\ matcall.ret.kind = "mat")
    /\ MatCalled("member") => mat = matcall.pre
    /\ MatCalled("self") => matcall.ret = PtrSelf

\* copy.neg on the vector (1, -1), whose result differs from the receiver
C4_Witness ==
    /\ VecCalled("copy")
    /\ veccall.op = "neg"
    /\ veccall.pre.x = Fin(1)
    /\ veccall.pre.y = Fin(-1)
    /\ veccall.ret.val.x = Fin(-1)
    /\ veccall.ret.val.y = Fin(1)

\* C5: scalar-sub subtracts in both families: self.ssub(s) leaves the
\* receiver equal to (x - s, y - s) and copy.ssub(s) returns (x - s, y - s).
C5_ScalarSubSubtracts ==
    (veccall.op = "ssub" /\ veccall.tbl \in {"self", "copy"}) =>
        LET result == IF veccall.tbl = "self" THEN vec ELSE veccall.ret.val
        IN /\ result.x = FSub(veccall.pre.x, veccall.arg.val)
           /\ result.y = FSub(veccall.pre.y, veccall.arg.val)

MatEquals(m1, m2) == m_equals(m1, m2).ret.val
AllFinite(m) == \A f \in MatComps(m) : f.k = "fin"
NoNaN(m) == \A f \in MatComps(m) : ~IsNaN(f)
MatmulByIdentity ==
    /\ matcall.op = "matmul"
    /\ matcall.tbl \in {"self", "copy"}
    /\ matcall.arg.val = Identity

\* C6 as claimed: for every matrix M, copy.matmul(identity) returns a matrix
\* for which equals(M) is true and self.matmul(identity) leaves M equal to
\* its value before the call.
C6_MatmulIdentityAnyMatrix ==
    MatmulByIdentity =>
        /\ matcall.tbl = "copy" => MatEquals(matcall.ret.val, matcall.pre)
        /\ matcall.tbl = "self" => MatEquals(mat, matcall.pre)

\* C6, amended: for every matrix M whose four components are finite,
\* copy.matmul(identity) returns a matrix with finite components for which
\* equals(M) is true, and self.matmul(identity) leaves M finite and equal to
\* its value before the call; so it holds again at every repeated call.
C6_MatmulIdentityFinite ==
    (MatmulByIdentity /\ AllFinite(matcall.pre)) =>
        /\ matcall.tbl = "copy" =>
               /\ MatEquals(matcall.ret.val, matcall.pre)
               /\ AllFinite(matcall.ret.val)
        /\ matcall.tbl = "self" =>
               /\ MatEquals(mat, matcall.pre)
               /\ AllFinite(mat)

\* self.matmul(identity) on a finite matrix with non-zero off-diagonal components
C6_Witness ==
    /\ MatmulByIdentity
    /\ matcall.tbl = "self"
    /\ matcall.pre.a = Fin(-1)
    /\ matcall.pre.b = Fin(1)
    /\ matcall.pre.c = Fin(-1)
    /\ matcall.pre.d = Fin(0)

\* the components after a transpose of pre: b and c swapped, a and d kept
Swapped(pre, post) == /\ post.a = pre.a /\ post.d = pre.d
                      /\ post.b = pre.c /\ post.c = pre.b

\* the matrix a second transpose, of the same family, gives
TransposedAgain ==
    IF matcall.tbl = "self"
    THEN CallM(mat.self["T"], mat, NoArg).self
    ELSE CallM(matcall.ret.val.copy["T"], matcall.ret.val, NoArg).ret.val

Transposed == matcall.op = "T" /\ matcall.tbl \in {"self", "copy"}

\* C7 as claimed: for every matrix M, a transpose swaps b and c and keeps a
\* and d, and transposing twice gives a matrix equal (m_equals) to M.
C7_TransposeTwiceAnyMatrix ==
    Transposed =>
        /\ Swapped(matcall.pre, IF matcall.tbl = "self" THEN mat ELSE matcall.ret.val)
        /\ MatEquals(TransposedAgain, matcall.pre)

\* C7, amended: for every matrix M, a transpose swaps b and c and keeps a
\* and d, and transposing twice gives back the very components of M; for
\* every M with no NaN component, the twice-transposed matrix is equal
\* (m_equals) to M.
C7_TransposeTwiceNoNaN ==
    Transposed =>
        /\ Swapped(matcall.pre, IF matcall.tbl = "self" THEN mat ELSE matcall.ret.val)
        /\ Swapped(IF matcall.tbl = "self" THEN mat ELSE matcall.ret.val,
                   TransposedAgain)
        /\ NoNaN(matcall.pre) => MatEquals(TransposedAgain, matcall.pre)

\* self.T on a matrix whose b and c differ, one of them infinite
C7_Witness ==
    /\ Transposed
    /\ matcall.tbl = "self"
    /\ matcall.pre.b = Inf(1)
    /\ matcall.pre.c = Fin(-1)
    /\ NoNaN(matcall.pre)

VecTablesOf(v) == v.self = VSO /\ v.copy = VCO
MatTablesOf(m) == m.self = MSO /\ m.copy = MCO
RetTables(call) ==
    (call.op # "none") =>
        /\ call.ret.kind = "vec" => VecTablesOf(call.ret.val)
        /\ call.ret.kind = "mat" => MatTablesOf(call.ret.val)

\* C8: the four tables hold what the module start assigned to them; every
\* Vector2D (the receiver, and every vector a constructor, a copy operation
\* or m_vecmul returned) carries VSO and VCO, every Matrix2x2 (the receiver,
\* and every matrix a constructor, a copy operation or v_vecmul returned)
\* carries MSO and MCO, also after a self operation on it.
C8_TablesFixed ==
    /\ VSO = VectorSelfOps /\ VCO = VectorCopyOps
    /\ MSO = MatrixSelfOps /\ MCO = MatrixCopyOps
    /\ VecTablesOf(vec)
    /\ MatTablesOf(mat)
    /\ RetTables(veccall)
    /\ RetTables(matcall)

\* m_vecmul has returned a Vector2D, from a matrix no constructor call of
\* the caller gave (a self operation made its component a)
C8_Witness ==
    /\ matcall.op = "vecmul"
    /\ matcall.ret.kind = "vec"
    /\ matcall.ret.val.x = Inf(1)
    /\ mat.a = Inf(1)
    /\ mat.c = Fin(1)

\* C9: self.matmul and self.rot of a vector and self.matmul of a matrix leave
\* in the receiver the components computed from its components before the
\* call, which are those the copy variant returns for the same inputs.
C9_SelfComputesFromOldComponents ==
    /\ (veccall.tbl = "self" /\ veccall.op = "matmul") =>
           LET p == veccall.pre
               m == veccall.arg.val
               c == CallV(p.copy["matmul"], p, veccall.arg).ret.val
           IN /\ vec.x = FAdd(FMul(p.x, m.a), FMul(p.y, m.c))
              /\ vec.y = FAdd(FMul(p.x, m.b), FMul(p.y, m.d))
              /\ vec.x = c.x /\ vec.y = c.y
    /\ (veccall.tbl = "self" /\ veccall.op = "rot") =>
           LET p == veccall.pre
               c == CallV(p.copy["rot"], p, NoArg).ret.val
           IN /\ vec.x = FNeg(p.y) /\ vec.y = p.x
              /\ vec.x = c.x /\ vec.y = c.y
    /\ (matcall.tbl = "self" /\ matcall.op = "matmul") =>
           LET p == matcall.pre
               m == matcall.arg.val
               c == CallM(p.copy["matmul"], p, matcall.arg).ret.val
           IN /\ mat.a = FAdd(FMul(p.a, m.a), FMul(p.b, m.c))
              /\ mat.b = FAdd(FMul(p.a, m.b), FMul(p.b, m.d))
              /\ mat.c = FAdd(FMul(p.c, m.a), FMul(p.d, m.c))
              /\ mat.d = FAdd(FMul(p.c, m.b), FMul(p.d, m.d))
              /\ mat.a = c.a /\ mat.b = c.b /\ mat.c = c.c /\ mat.d = c.d

\* self.matmul of the vector (1, -1) by [[1, 1], [0, 1]]: the new y, 0, is
\* computed from the old x, 1, not from the new one
C9_Witness ==
    /\ veccall.tbl = "self"
    /\ veccall.op = "matmul"
    /\ veccall.pre.x = Fin(1)
    /\ veccall.pre.y = Fin(-1)
    /\ veccall.arg.val.b = Fin(1)
    /\ veccall.arg.val.c = Fin(0)
    /\ vec.x = Fin(1)
    /\ vec.y = Fin(0)

====
